---- MODULE Spec2Model ----
(***************************************************************************)
(* Model of docker/install-dynamic-plugins.ts: the dynamic plugin          *)
(* installer (manifest resolution, integrity verification, archive         *)
(* extraction, configuration merge).                                       *)
(***************************************************************************)
EXTENDS Integers, Sequences, FiniteSets, TLC

(***************************************************************************)
(* JavaScript values.  A YAML value is a string, number, boolean, null or  *)
(* an object; an array is an object whose own keys are "0", "1", ...       *)
(* (typeof [] === 'object').  Objects keep their own keys in property      *)
(* order: kv is the sequence of <<key, value>> pairs Object.entries gives. *)
(* v is the text of a primitive (what String(value) returns).              *)
(***************************************************************************)
Undefined == [t |-> "undef", v |-> "undefined", kv |-> <<>>]
NullV     == [t |-> "null",  v |-> "null", kv |-> <<>>]
Str(x)    == [t |-> "str",  v |-> x, kv |-> <<>>]
Num(x)    == [t |-> "num",  v |-> x, kv |-> <<>>]
Bool(x)   == [t |-> "bool", v |-> x, kv |-> <<>>]
Obj(kv)   == [t |-> "o", v |-> "object", kv |-> kv]
Arr(kv)   == [t |-> "a", v |-> "object", kv |-> kv]
EmptyObj  == Obj(<<>>)

\* typeof value === 'object' && value !== null
IsObject(x) == x.t \in {"o", "a"}

\* Canonical array indices ("0", "1", ...) are ordered before every other key.
IndexKeys == <<"0", "1", "2">>
IsIndex(k) == \E i \in 1..Len(IndexKeys) : IndexKeys[i] = k
IndexOf(k) == CHOOSE i \in 1..Len(IndexKeys) : IndexKeys[i] = k

\* key in object (own keys)
Has(kv, k) == \E i \in 1..Len(kv) : kv[i][1] = k
Pos(kv, k) == CHOOSE i \in 1..Len(kv) : kv[i][1] = k
\* object[key]
Get(kv, k) == IF Has(kv, k) THEN kv[Pos(kv, k)][2] ELSE Undefined

\* Where a new own key is placed in property order.
InsertAt(kv, k) ==
  IF IsIndex(k)
    THEN 1 + Cardinality({i \in 1..Len(kv) :
                 IsIndex(kv[i][1]) /\ IndexOf(kv[i][1]) < IndexOf(k)})
    ELSE Len(kv) + 1

\* object[key] = value
Put(kv, k, x) ==
  IF Has(kv, k)
    THEN [kv EXCEPT ![Pos(kv, k)] = <<k, x>>]
    ELSE LET p == InsertAt(kv, k)
         IN  SubSeq(kv, 1, p - 1) \o << <<k, x>> >> \o SubSeq(kv, p, Len(kv))

Keys(kv) == {kv[i][1] : i \in 1..Len(kv)}

(***************************************************************************)
(* merge(source, destination, prefix).  The result records whether the     *)
(* call returned (ok), the destination as the call left it (d: the code    *)
(* mutates in place, so writes made before a throw stay), and on a throw   *)
(* the error: err = "InstallException" with the key the message names      *)
(* (named = prefix + key, as the sequence of its dot-separated segments),  *)
(* or err = "TypeError" (the in operator or an assignment applied to a     *)
(* primitive destination in strict mode).                                  *)
(***************************************************************************)
MergeOk(d) == [ok |-> TRUE, d |-> d, err |-> "none", named |-> <<>>]
MergeThrow(d, e, n) == [ok |-> FALSE, d |-> d, err |-> e, named |-> n]

\* a faulty variant: a value of the source replaces the value the destination
\* holds for the key (the last writer wins), nested objects merged likewise
RECURSIVE merge_overwrite(_, _, _)
merge_overwrite(source, destination, prefix) ==
  LET acc[i \in 0..Len(source.kv)] ==
        IF i = 0 THEN (IF IsObject(destination) THEN destination ELSE EmptyObj)
        ELSE LET key   == source.kv[i][1]
                 value == source.kv[i][2]
                 cur   == Get(acc[i - 1].kv, key)
             IN  [acc[i - 1] EXCEPT !.kv =
                    Put(@, key, IF IsObject(value)
                                  THEN merge_overwrite(value, cur, <<key>>).d
                                  ELSE value)]
  IN  MergeOk(acc[Len(source.kv)])

RECURSIVE mergeEntries(_, _, _, _)
merge(source, destination, prefix) == mergeEntries(source.kv, 1, destination, prefix)

mergeEntries(skv, i, destination, prefix) ==
  IF i > Len(skv) THEN MergeOk(destination)
  ELSE
    LET key   == skv[i][1]
        value == skv[i][2]
    IN
    IF ~IsObject(destination)
      THEN \* destination is a number, string or boolean: "key in destination"
           \* and "destination[key] = node" both throw
           MergeThrow(destination, "TypeError", <<>>)
    ELSE IF IsObject(value)
      THEN LET cur  == Get(destination.kv, key)
               \* destination[key] ?? {}
               node == IF cur.t \in {"undef", "null"} THEN EmptyObj ELSE cur
               r    == merge(value, node, <<key>>)
           IN  IF r.ok
                 THEN mergeEntries(skv, i + 1,
                        [destination EXCEPT !.kv = Put(@, key, r.d)], prefix)
                 ELSE \* the throw skips "destination[key] = node"; a node that
                      \* was already in the destination has been mutated in place
                      MergeThrow(IF IsObject(cur)
                                   THEN [destination EXCEPT !.kv = Put(@, key, r.d)]
                                   ELSE destination,
                                 r.err, r.named)
    ELSE IF Has(destination.kv, key) /\ Get(destination.kv, key) # value
      THEN MergeThrow(destination, "InstallException", prefix \o <<key>>)
    ELSE mergeEntries(skv, i + 1,
           [destination EXCEPT !.kv = Put(@, key, value)], prefix)

(***************************************************************************)
(* Strings.  A string is an atom; Chars gives its text as a sequence of    *)
(* tokens, each with a length in characters, for the string operations     *)
(* the program applies (startsWith, split, slice).                         *)
(***************************************************************************)
Chars(s) ==
  CASE s = "./l"          -> <<"./", "l">>
    [] s = "p"            -> <<"p">>
    [] s = "1"            -> <<"1">>
    [] s = "undefined"    -> <<"undefined">>
    [] s = "sha256-D1"    -> <<"sha256", "-", "D1">>
    [] s = "sha512-E1"    -> <<"sha512", "-", "E1">>
    [] s = "md5-M1"       -> <<"md5", "-", "M1">>
    [] s = "sha256-D1-x"  -> <<"sha256", "-", "D1", "-", "x">>
    [] s = "sha256"       -> <<"sha256">>
    [] s = "package/f"    -> <<"package/", "f">>
    [] s = "package/g"    -> <<"package/", "g">>
    [] s = "evil/f"       -> <<"evil/", "f">>
    [] OTHER              -> <<s>>

TokLen(tok) ==
  CASE tok = "package/" -> 8
    [] tok = "evil/"    -> 5
    [] tok = "./"       -> 2
    [] tok = "sha256"   -> 6
    [] tok = "sha512"   -> 6
    [] tok = "md5"      -> 3
    [] tok = "undefined" -> 9
    [] tok = "D1"       -> 2
    [] tok = "d1"       -> 2
    [] tok = "E1"       -> 2
    [] tok = "M1"       -> 2
    [] OTHER            -> 1

\* s.startsWith(prefix), prefix a single token
StartsWith(s, prefix) == Len(Chars(s)) > 0 /\ Chars(s)[1] = prefix

\* s.split(sep): the token sequences between the separators
RECURSIVE SplitToks(_, _, _)
SplitToks(toks, sep, cur) ==
  IF toks = <<>> THEN <<cur>>
  ELSE IF Head(toks) = sep THEN <<cur>> \o SplitToks(Tail(toks), sep, <<>>)
  ELSE SplitToks(Tail(toks), sep, Append(cur, Head(toks)))
Split(s, sep) == SplitToks(Chars(s), sep, <<>>)

\* s.slice(n): the text after the first n characters (n on a token boundary)
RECURSIVE SliceToks(_, _)
SliceToks(toks, n) ==
  IF n <= 0 \/ toks = <<>> THEN toks
  ELSE SliceToks(Tail(toks), n - TokLen(Head(toks)))
Slice(s, n) == SliceToks(Chars(s), n)

(***************************************************************************)
(* Integrity verification.                                                 *)
(***************************************************************************)
RECOGNIZED_ALGORITHMS == <<"sha512", "sha384", "sha256">>

\* The archives the packer can produce, by content.
ArchiveBytes == {"B1", "B2"}

\* openssl dgst -<algorithm> -binary | openssl base64 -A, as text.  Distinct
\* contents have distinct digests; those of B1 and B2 differ in case only.
Digest(algorithm, bytes) ==
  CASE algorithm = <<"sha256">> -> IF bytes = "B1" THEN <<"D1">> ELSE <<"d1">>
    [] algorithm = <<"sha512">> -> IF bytes = "B1" THEN <<"E1">> ELSE <<"e1">>
    [] algorithm = <<"md5">>    -> IF bytes = "B1" THEN <<"M1">> ELSE <<"m1">>
    [] OTHER                    -> IF bytes = "B1" THEN <<"F1">> ELSE <<"f1">>

\* lower case of a digest text
Lower(toks) ==
  [i \in 1..Len(toks) |->
     CASE toks[i] = "D1" -> "d1"
       [] toks[i] = "E1" -> "e1"
       [] toks[i] = "F1" -> "f1"
       [] toks[i] = "M1" -> "m1"
       [] OTHER          -> toks[i]]

\* a faulty variant: the digests are compared without regard to case
verifyPackageIntegrity_nocase(plugin, bytes) ==
  IF ~Has(plugin.kv, "integrity") THEN "missing"
  ELSE LET integrity == Get(plugin.kv, "integrity") IN
    IF integrity.t # "str" THEN "notstring"
    ELSE LET integrityParts == Split(integrity.v, "-") IN
      IF Len(integrityParts) # 2 THEN "form"
      ELSE LET algorithm  == integrityParts[1]
               hashDigest == integrityParts[2]
           IN
        IF ~\E i \in 1..Len(RECOGNIZED_ALGORITHMS) :
              algorithm = <<RECOGNIZED_ALGORITHMS[i]>>
          THEN "algorithm"
        ELSE IF Lower(hashDigest) # Lower(Digest(algorithm, bytes)) THEN "mismatch"
        ELSE "ok"

\* "ok" when the function returns, otherwise the check that throws.
verifyPackageIntegrity(plugin, bytes) ==
  IF ~Has(plugin.kv, "integrity") THEN "missing"
  ELSE LET integrity == Get(plugin.kv, "integrity") IN
    IF integrity.t # "str" THEN "notstring"
    ELSE LET integrityParts == Split(integrity.v, "-") IN
      IF Len(integrityParts) # 2 THEN "form"
      ELSE LET algorithm  == integrityParts[1]
               hashDigest == integrityParts[2]
           IN
        IF ~\E i \in 1..Len(RECOGNIZED_ALGORITHMS) :
              algorithm = <<RECOGNIZED_ALGORITHMS[i]>>
          THEN "algorithm"
        \* Buffer.from(hashDigest, 'base64') does not throw
        ELSE IF hashDigest # Digest(algorithm, bytes) THEN "mismatch"
        ELSE "ok"

(***************************************************************************)
(* Bounds and input sets.                                                  *)
(***************************************************************************)
MaxIncludes       == 2   \* entries of the includes list
MaxIncludePlugins == 2   \* entries of one included plugins list
MaxRootPlugins    == 2   \* entries of the root plugins list
MaxArchiveEntries == 2   \* entries of one archive

\* a local package and two registry packages, one named by a canonical index
PackageNames == {"./l", "p", "1"}
\* keys of allPlugins: String(plugin.package)
PackageKeys  == PackageNames \cup {"undefined"}

\* pluginConfig fragments
FragN1 == Obj(<< <<"n", Obj(<< <<"a", Num("1")>> >>)>> >>)
FragN2 == Obj(<< <<"n", Obj(<< <<"b", Num("2")>> >>)>> >>)
FragN3 == Obj(<< <<"n", Obj(<< <<"a", Num("2")>> >>)>> >>)

\* The values the fields of the manifest entries of one run are drawn from;
\* Undefined stands for a field the entry lacks.  packageless: the manifests
\* may hold an entry with no package field.  packages: the packages named.
InputFamilies ==
  { [disabled    |-> {Undefined, Bool("true"), Bool("false")},
     integrity   |-> {Undefined, Str("sha256-D1")},
     config      |-> {Undefined},
     packageless |-> FALSE,
     packages    |-> {"./l", "p"}],
    [disabled    |-> {Undefined},
     integrity   |-> {Undefined, Str("sha256-D1"), Str("sha512-E1"), Str("md5-M1"),
                      Str("sha256-D1-x"), Num("5")},
     config      |-> {Undefined},
     packageless |-> FALSE,
     packages    |-> {"p", "1"}],
    [disabled    |-> {Undefined, Bool("true")},
     integrity   |-> {Str("sha256-D1")},
     config      |-> {Undefined, NullV, FragN1, FragN2, FragN3},
     packageless |-> FALSE,
     packages    |-> {"./l", "p"}],
    [disabled    |-> {Undefined, Bool("true")},
     integrity   |-> {Str("sha256-D1")},
     config      |-> {Undefined},
     packageless |-> TRUE,
     packages    |-> {"./l", "1"}] }

\* A plugin entry of a manifest.
Opt(k, x) == IF x = Undefined THEN <<>> ELSE << <<k, x>> >>
Entry(p, d, i, c) ==
  Obj(Opt("package", p) \o Opt("disabled", d) \o Opt("integrity", i)
      \o Opt("pluginConfig", c))

EntriesOf(family) ==
  {Entry(Str(n), d, i, c) : n \in family.packages, d \in family.disabled,
                            i \in family.integrity, c \in family.config}
\* entries with no package field
PackagelessEntries(family) ==
  IF family.packageless
    THEN {Entry(Undefined, d, Undefined, Undefined) : d \in family.disabled}
    ELSE {}

\* the root manifest (dynamic-plugins.yaml) and the included manifests
RootEntries(family)    == EntriesOf(family) \cup PackagelessEntries(family)
IncludeEntries(family) == EntriesOf(family) \cup PackagelessEntries(family)

\* MAX_ENTRY_SIZE is not set: parseInt('20000000', 10)
DefaultMaxEntrySize == 20000000
EntryNames == {"package/f", "evil/f"}
EntrySizes == {DefaultMaxEntrySize, DefaultMaxEntrySize + 1}
ArchiveEntries == [name : EntryNames, size : EntrySizes]
NoEntry == [name |-> "none", size |-> 0]

(***************************************************************************)
(* State.                                                                  *)
(***************************************************************************)
VARIABLES
  pc,                 \* position in main: the stage about to run
  skipIntegrityCheck, \* SKIP_INTEGRITY_CHECK
  maxEntrySize,       \* MAX_ENTRY_SIZE
  inputs,             \* the values the fields of the manifest entries take
  manifest,           \* dynamic-plugins.yaml: what reading it gives
  globalConfig,       \* the configuration accumulated so far
  allPlugins,         \* package -> plugin, in property order
  nInc,               \* includes read so far
  nRoot,              \* root plugins read so far
  plugin,             \* the entry last read (loop variable of lines 213 and 226)
  replaced,           \* what allPlugins held at the package of that entry
                      \* before line 214 assigned it
  idx,                \* position of the install loop in Object.values(allPlugins)
  archives,           \* by package: content of the archive file on disk, or "none"
  dirs,               \* by package: the plugin directory and the files in it
  nEntries,           \* archive entries read by the current extraction
  tarEntry,           \* the archive entry last handed to filter
  output,             \* app-config.dynamic-plugins.yaml
  exitStatus,         \* the exit status of the process, -1 while it runs
  error,              \* the exception thrown, if any
  calls               \* external operations performed: <<operation, package>>

vars == <<pc, skipIntegrityCheck, maxEntrySize, inputs, manifest, globalConfig, allPlugins, nInc,
          nRoot, plugin, replaced, idx, archives, dirs, nEntries, tarEntry, output, exitStatus,
          error, calls>>

\* dynamic-plugins.yaml: the file is absent; its content is blank (yaml.load
\* gives undefined) or the empty string; yaml.load throws; the content is a
\* number or string, null, an object whose includes field is no list, or an
\* object whose includes field is absent or a list
ManifestKinds == {"absent", "blank", "emptystring", "malformed", "scalar", "null",
                  "badincludes", "object"}

NoError == [type |-> "none", stage |-> "none", key |-> "none", named |-> <<>>]
Thrown(type, stage, key, named) ==
  [type |-> type, stage |-> stage, key |-> key, named |-> named]

NoFile   == [kind |-> "nofile", doc |-> Undefined]
EmptyDoc == [kind |-> "empty",  doc |-> Undefined]
\* yaml.dump(globalConfig): the document holding the tree
dump(tree) == [kind |-> "yaml", doc |-> tree]

\* a file of a plugin directory: its path in the directory and its size
File(name, size) == [name |-> name, size |-> size]
StaleFile    == File(<<"stale">>, 1)
NoDir        == [exists |-> FALSE, files |-> {}]
Dir(files)   == [exists |-> TRUE,  files |-> files]

InitialGlobalConfig ==
  Obj(<< <<"dynamicPlugins",
           Obj(<< <<"rootDirectory", Str("dynamic-plugins-root")>> >>)>> >>)

Init ==
  /\ pc = "start"
  /\ skipIntegrityCheck \in BOOLEAN
  /\ maxEntrySize = DefaultMaxEntrySize
  /\ inputs \in InputFamilies
  /\ manifest \in ManifestKinds
  /\ globalConfig = Undefined
  /\ allPlugins = <<>>
  /\ nInc = 0
  /\ nRoot = 0
  /\ plugin = Undefined
  /\ replaced = Undefined
  /\ idx = 0
  /\ archives = [k \in PackageKeys |-> "none"]
  /\ dirs \in {[k \in PackageKeys |-> NoDir], [k \in PackageKeys |-> Dir({StaleFile})]}
  /\ nEntries = 0
  /\ tarEntry = NoEntry
  /\ output = NoFile
  /\ exitStatus = -1
  /\ error = NoError
  /\ calls = {}

(***************************************************************************)
(* main, lines 127-171: the root manifest.                                 *)
(***************************************************************************)
Return(out) ==
  /\ output' = out
  /\ pc' = "done"
  /\ exitStatus' = 0

Throw(type, stage, key, named) ==
  /\ pc' = "thrown"
  /\ error' = Thrown(type, stage, key, named)

\* dynamic-plugins.yaml does not exist (lines 140-146)
NoManifest ==
  /\ pc = "start"
  /\ manifest = "absent"
  /\ Return(EmptyDoc)
  /\ UNCHANGED <<skipIntegrityCheck, maxEntrySize, inputs, manifest, globalConfig, allPlugins, nInc,
                 nRoot, plugin, replaced, idx, archives, dirs, nEntries, tarEntry, error, calls>>

\* a faulty variant: the empty manifest goes through to the final write
EmptyManifest_dump ==
  /\ pc = "start"
  /\ manifest \in {"blank", "emptystring"}
  /\ globalConfig' = InitialGlobalConfig
  /\ Return(dump(InitialGlobalConfig))
  /\ UNCHANGED <<skipIntegrityCheck, maxEntrySize, inputs, manifest, allPlugins, nInc,
                 nRoot, plugin, replaced, idx, archives, dirs, nEntries, tarEntry, error, calls>>

\* yaml.load returns undefined (blank file) or '' (lines 148-165)
EmptyManifest ==
  /\ pc = "start"
  /\ manifest \in {"blank", "emptystring"}
  /\ globalConfig' = InitialGlobalConfig
  /\ Return(EmptyDoc)
  /\ UNCHANGED <<skipIntegrityCheck, maxEntrySize, inputs, manifest, allPlugins, nInc,
                 nRoot, plugin, replaced, idx, archives, dirs, nEntries, tarEntry, error, calls>>

\* yaml.load throws, the content is no object (lines 167-171), the content is
\* null (content.includes throws), or includes is no list (lines 181-186)
BadManifest ==
  /\ pc = "start"
  /\ globalConfig' = InitialGlobalConfig
  /\ manifest \in {"malformed", "scalar", "null", "badincludes"}
  /\ Throw(CASE manifest = "malformed" -> "Error"
            [] manifest = "null"      -> "TypeError"
            [] OTHER                  -> "InstallException",
           "manifest", "none", <<manifest>>)
  /\ UNCHANGED <<skipIntegrityCheck, maxEntrySize, inputs, manifest, allPlugins, nInc, nRoot, plugin, replaced,
                 idx, archives, dirs, nEntries, tarEntry, output, exitStatus, calls>>

\* the content is an object whose includes field is absent or a list
LoadManifest ==
  /\ pc = "start"
  /\ manifest = "object"
  /\ globalConfig' = InitialGlobalConfig
  /\ pc' = "includes"
  /\ UNCHANGED <<skipIntegrityCheck, maxEntrySize, inputs, manifest, allPlugins, nInc, nRoot, plugin, replaced,
                 idx, archives, dirs, nEntries, tarEntry, output, exitStatus, error, calls>>

(***************************************************************************)
(* main, lines 188-217: one entry of the includes list.                    *)
(***************************************************************************)
\* a faulty variant: an entry for a package already defined is laid over the
\* definition, key by key
RECURSIVE includeAll_layered(_, _)
includeAll_layered(all, includePlugins) ==
  IF includePlugins = <<>> THEN all
  ELSE LET p   == Head(includePlugins)
           k   == Get(p.kv, "package").v
           old == Get(all, k)
           layer[i \in 0..Len(p.kv)] ==
             IF i = 0 THEN old
             ELSE [layer[i - 1] EXCEPT !.kv = Put(@, p.kv[i][1], p.kv[i][2])]
       IN  includeAll_layered(Put(all, k, IF Has(all, k) THEN layer[Len(p.kv)] ELSE p),
                              Tail(includePlugins))

\* allPlugins[plugin.package] = plugin, for the plugins of one include in order
RECURSIVE includeAll(_, _)
includeAll(all, includePlugins) ==
  IF includePlugins = <<>> THEN all
  ELSE LET p == Head(includePlugins)
       IN  includeAll(Put(all, Get(p.kv, "package").v, p), Tail(includePlugins))

\* the entry is no string, the file is missing, its content is no object, or
\* its plugins field is no list
IncludeFail ==
  /\ pc = "includes"
  /\ nInc < MaxIncludes
  /\ nInc' = nInc + 1
  /\ \E why \in {"notstring", "missing", "notobject", "plugins"} :
       Throw("InstallException", "include", why, <<>>)
  /\ UNCHANGED <<skipIntegrityCheck, maxEntrySize, inputs, manifest, globalConfig, allPlugins, nRoot,
                 plugin, replaced, idx, archives, dirs, nEntries, tarEntry, output, exitStatus, calls>>

BoundedSeq(S, n) == UNION {[1..m -> S] : m \in 0..n}

\* String(plugin.package): the property key line 214 assigns
PackageKey(entry) == Get(entry.kv, "package").v

IncludeFile ==
  /\ pc = "includes"
  /\ nInc < MaxIncludes
  /\ nInc' = nInc + 1
  /\ \E includePlugins \in BoundedSeq(IncludeEntries(inputs), MaxIncludePlugins) :
       /\ allPlugins' = includeAll(allPlugins, includePlugins)
       /\ IF includePlugins = <<>>
            THEN plugin' = Undefined /\ replaced' = Undefined
            ELSE LET n    == Len(includePlugins)
                     last == includePlugins[n]
                 IN  /\ plugin' = last
                     /\ replaced' = Get(includeAll(allPlugins, SubSeq(includePlugins, 1, n - 1)),
                                        PackageKey(last))
  /\ UNCHANGED <<pc, skipIntegrityCheck, maxEntrySize, inputs, manifest, globalConfig, nRoot,
                 idx, archives, dirs, nEntries, tarEntry, output, exitStatus, error, calls>>

\* the includes list is exhausted; the plugins field is absent or a list
\* (lines 219-224)
EndIncludes ==
  /\ pc = "includes"
  /\ pc' = "plugins"
  /\ nInc' = 0
  /\ plugin' = Undefined
  /\ replaced' = Undefined
  /\ UNCHANGED <<skipIntegrityCheck, maxEntrySize, inputs, manifest, globalConfig, allPlugins,
                 nRoot, idx, archives, dirs, nEntries, tarEntry, output, exitStatus,
                 error, calls>>

BadPlugins ==
  /\ pc = "includes"
  /\ Throw("InstallException", "manifest", "plugins", <<>>)
  /\ UNCHANGED <<skipIntegrityCheck, maxEntrySize, inputs, manifest, globalConfig, allPlugins, nInc,
                 nRoot, plugin, replaced, idx, archives, dirs, nEntries, tarEntry, output, exitStatus,
                 calls>>

(***************************************************************************)
(* main, lines 226-250: one entry of the root plugins list.                *)
(***************************************************************************)
\* a faulty variant: the root entry replaces the existing definition wholesale
override_replace(existing, fields) == Obj(fields)

\* lines 244-249: every field of the entry but package is assigned
RECURSIVE override(_, _)
override(existing, fields) ==
  IF fields = <<>> THEN existing
  ELSE LET key   == Head(fields)[1]
           value == Head(fields)[2]
       IN  IF key = "package"
             THEN override(existing, Tail(fields))
             ELSE override([existing EXCEPT !.kv = Put(@, key, value)],
                           Tail(fields))

RootBadPackage ==
  /\ pc = "plugins"
  /\ nRoot < MaxRootPlugins
  /\ \E entry \in RootEntries(inputs) :
       /\ Get(entry.kv, "package").t # "str"
       /\ plugin' = entry
       /\ UNCHANGED replaced
  /\ nRoot' = nRoot + 1
  /\ Throw("InstallException", "manifest", "package", <<>>)
  /\ UNCHANGED <<skipIntegrityCheck, maxEntrySize, inputs, manifest, globalConfig, allPlugins, nInc,
                 idx, archives, dirs, nEntries, tarEntry, output, exitStatus, calls>>

RootInsert ==
  /\ pc = "plugins"
  /\ nRoot < MaxRootPlugins
  /\ \E entry \in RootEntries(inputs) :
       LET package_ == Get(entry.kv, "package") IN
       /\ package_.t = "str"
       /\ ~Has(allPlugins, package_.v)
       /\ plugin' = entry
       /\ UNCHANGED replaced
       /\ allPlugins' = Put(allPlugins, package_.v, entry)
  /\ nRoot' = nRoot + 1
  /\ UNCHANGED <<pc, skipIntegrityCheck, maxEntrySize, inputs, manifest, globalConfig, nInc, idx,
                 archives, dirs, nEntries, tarEntry, output, exitStatus, error, calls>>

RootOverride ==
  /\ pc = "plugins"
  /\ nRoot < MaxRootPlugins
  /\ \E entry \in RootEntries(inputs) :
       LET package_ == Get(entry.kv, "package") IN
       /\ package_.t = "str"
       /\ Has(allPlugins, package_.v)
       /\ plugin' = entry
       /\ UNCHANGED replaced
       /\ allPlugins' = Put(allPlugins, package_.v,
                            override(Get(allPlugins, package_.v), entry.kv))
  /\ nRoot' = nRoot + 1
  /\ UNCHANGED <<pc, skipIntegrityCheck, maxEntrySize, inputs, manifest, globalConfig, nInc, idx,
                 archives, dirs, nEntries, tarEntry, output, exitStatus, error, calls>>

\* the plugins list is exhausted: the install loop starts (line 253)
EndPlugins ==
  /\ pc = "plugins"
  /\ pc' = "plugin"
  /\ idx' = 1
  /\ nRoot' = 0
  /\ plugin' = Undefined
  /\ UNCHANGED <<skipIntegrityCheck, maxEntrySize, inputs, manifest, globalConfig, allPlugins,
                 nInc, replaced, archives, dirs, nEntries, tarEntry, output, exitStatus, error, calls>>

(***************************************************************************)
(* main, lines 253-338: the install loop, one plugin at a time.            *)
(***************************************************************************)
\* Object.values(allPlugins)[idx] and its key
CurKey    == allPlugins[idx][1]
CurPlugin == allPlugins[idx][2]
InLoop    == idx >= 1 /\ idx <= Len(allPlugins)

\* a faulty variant: the test compares with false
IsDisabled_false(pl) ==
  Has(pl.kv, "disabled") /\ Get(pl.kv, "disabled") = Bool("false")

IsDisabled(pl) == Has(pl.kv, "disabled") /\ Get(pl.kv, "disabled") = Bool("true")
packageIsLocal(pl) == StartsWith(Get(pl.kv, "package").v, "./")
\* a faulty variant: the test for a local package is inverted
MustVerify_local(pl) == packageIsLocal(pl) /\ ~skipIntegrityCheck

\* verifyPackageIntegrity is called (line 294)
MustVerify(pl) == ~packageIsLocal(pl) /\ ~skipIntegrityCheck

\* lines 256-259
SkipDisabled ==
  /\ pc = "plugin"
  /\ InLoop
  /\ IsDisabled(CurPlugin)
  /\ idx' = idx + 1
  /\ UNCHANGED <<pc, skipIntegrityCheck, maxEntrySize, inputs, manifest, globalConfig, allPlugins,
                 nInc, nRoot, plugin, replaced, archives, dirs, nEntries, tarEntry, output, exitStatus,
                 error, calls>>

\* line 263: package_ is undefined, startsWith throws
PackageNotString ==
  /\ pc = "plugin"
  /\ InLoop
  /\ ~IsDisabled(CurPlugin)
  /\ Get(CurPlugin.kv, "package").t # "str"
  /\ Throw("TypeError", "resolved", CurKey, <<>>)
  /\ UNCHANGED <<skipIntegrityCheck, maxEntrySize, inputs, manifest, globalConfig, allPlugins, nInc,
                 nRoot, plugin, replaced, idx, archives, dirs, nEntries, tarEntry, output, exitStatus,
                 calls>>

\* lines 265-270
IntegrityMissing ==
  /\ pc = "plugin"
  /\ InLoop
  /\ ~IsDisabled(CurPlugin)
  /\ Get(CurPlugin.kv, "package").t = "str"
  /\ MustVerify(CurPlugin)
  /\ ~Has(CurPlugin.kv, "integrity")
  /\ Throw("InstallException", "resolved", CurKey, <<>>)
  /\ UNCHANGED <<skipIntegrityCheck, maxEntrySize, inputs, manifest, globalConfig, allPlugins, nInc,
                 nRoot, plugin, replaced, idx, archives, dirs, nEntries, tarEntry, output, exitStatus,
                 calls>>

\* lines 261-277: the plugin is to be installed
StartInstall ==
  /\ pc = "plugin"
  /\ InLoop
  /\ ~IsDisabled(CurPlugin)
  /\ Get(CurPlugin.kv, "package").t = "str"
  /\ ~(MustVerify(CurPlugin) /\ ~Has(CurPlugin.kv, "integrity"))
  /\ pc' = "fetch"
  /\ UNCHANGED <<skipIntegrityCheck, maxEntrySize, inputs, manifest, globalConfig, allPlugins, nInc,
                 nRoot, plugin, replaced, idx, archives, dirs, nEntries, tarEntry, output, exitStatus,
                 error, calls>>

(***************************************************************************)
(* lines 278-292: npm pack.  The code reads status, stdout and stderr of   *)
(* what execSync returns.  execSync of child_process returns the stdout    *)
(* of the command as a Buffer when the command exits with 0 (the use made  *)
(* of it at lines 111-119) and throws when it does not; a Buffer has no    *)
(* status and no stderr.  The shapes of the result are inputs:             *)
(*   "buffer"  exit 0, the result is the stdout Buffer                     *)
(*   "throws"  exit not 0, execSync throws                                 *)
(*   "status0" the result is an object with status 0 and stdout            *)
(*   "status1" the result is an object with a status other than 0          *)
(***************************************************************************)
ExecResults == {"buffer", "throws", "status0", "status1"}
\* npm pack exited with 0 and wrote the archive
PackSucceeded(result) == result \in {"buffer", "status0"}
\* completed.status
StatusOf(result) ==
  CASE result = "status0" -> Num("0")
    [] result = "status1" -> Num("1")
    [] OTHER              -> Undefined

FetchFail ==
  /\ pc = "fetch"
  /\ \E result \in ExecResults, bytes \in ArchiveBytes :
       /\ result = "throws" \/ StatusOf(result) # Num("0")
       /\ archives' = IF PackSucceeded(result)
                        THEN [archives EXCEPT ![CurKey] = bytes]
                        ELSE archives
       /\ Throw(CASE result = "throws"  -> "Error"
                  \* completed.stderr is undefined: .toString() throws
                  [] result = "buffer"  -> "TypeError"
                  [] OTHER              -> "InstallException",
                "fetch", CurKey, <<result>>)
  /\ calls' = calls \cup {<<"fetch", CurKey>>}
  /\ UNCHANGED <<skipIntegrityCheck, maxEntrySize, inputs, manifest, globalConfig, allPlugins, nInc,
                 nRoot, plugin, replaced, idx, dirs, nEntries, tarEntry, output, exitStatus>>

FetchOk ==
  /\ pc = "fetch"
  /\ \E result \in ExecResults, bytes \in ArchiveBytes :
       /\ result # "throws" /\ StatusOf(result) = Num("0")
       /\ archives' = [archives EXCEPT ![CurKey] = bytes]
  /\ calls' = calls \cup {<<"fetch", CurKey>>}
  /\ pc' = "verify"
  /\ UNCHANGED <<skipIntegrityCheck, maxEntrySize, inputs, manifest, globalConfig, allPlugins, nInc,
                 nRoot, plugin, replaced, idx, dirs, nEntries, tarEntry, output, exitStatus, error>>

\* lines 294-297
VerifySkipped ==
  /\ pc = "verify"
  /\ ~MustVerify(CurPlugin)
  /\ pc' = "prepare"
  /\ UNCHANGED <<skipIntegrityCheck, maxEntrySize, inputs, manifest, globalConfig, allPlugins, nInc,
                 nRoot, plugin, replaced, idx, archives, dirs, nEntries, tarEntry, output, exitStatus,
                 error, calls>>

VerifyOk ==
  /\ pc = "verify"
  /\ MustVerify(CurPlugin)
  /\ verifyPackageIntegrity(CurPlugin, archives[CurKey]) = "ok"
  /\ calls' = calls \cup {<<"verify", CurKey>>}
  /\ pc' = "prepare"
  /\ UNCHANGED <<skipIntegrityCheck, maxEntrySize, inputs, manifest, globalConfig, allPlugins, nInc,
                 nRoot, plugin, replaced, idx, archives, dirs, nEntries, tarEntry, output, exitStatus,
                 error>>

VerifyFail ==
  /\ pc = "verify"
  /\ MustVerify(CurPlugin)
  /\ verifyPackageIntegrity(CurPlugin, archives[CurKey]) # "ok"
  /\ calls' = calls \cup {<<"verify", CurKey>>}
  /\ Throw("InstallException", "verify", CurKey,
           <<verifyPackageIntegrity(CurPlugin, archives[CurKey])>>)
  /\ UNCHANGED <<skipIntegrityCheck, maxEntrySize, inputs, manifest, globalConfig, allPlugins, nInc,
                 nRoot, plugin, replaced, idx, archives, dirs, nEntries, tarEntry, output, exitStatus>>

\* lines 299-300: realpathSync throws when the directory does not exist
PrepareFail ==
  /\ pc = "prepare"
  /\ ~dirs[CurKey].exists
  /\ Throw("Error", "prepare", CurKey, <<"ENOENT">>)
  /\ UNCHANGED <<skipIntegrityCheck, maxEntrySize, inputs, manifest, globalConfig, allPlugins, nInc,
                 nRoot, plugin, replaced, idx, archives, dirs, nEntries, tarEntry, output, exitStatus,
                 calls>>

\* lines 302-304: rmdirSync, mkdirSync
Prepare ==
  /\ pc = "prepare"
  /\ dirs[CurKey].exists
  /\ dirs' = [dirs EXCEPT ![CurKey] = Dir({})]
  /\ calls' = calls \cup {<<"remove", CurKey>>}
  /\ pc' = "extract"
  /\ UNCHANGED <<skipIntegrityCheck, maxEntrySize, inputs, manifest, globalConfig,
                 allPlugins, nInc, nRoot, plugin, replaced, idx, archives, nEntries, tarEntry,
                 output, exitStatus, error>>

(***************************************************************************)
(* lines 306-324: tar.extract hands each entry of the archive to filter,   *)
(* in archive order.  entry.name is the path of the entry in the archive,  *)
(* and an entry filter accepts is written at the name filter leaves it     *)
(* with, below the target directory.                                       *)
(***************************************************************************)
\* a faulty variant: the size of the entry is not checked
filter_nosize(entry) ==
  IF ~StartsWith(entry.name, "package/") THEN "prefix" ELSE "accept"

\* what filter does with an entry: "prefix" and "size" are its two throws
filter(entry) ==
  IF ~StartsWith(entry.name, "package/") THEN "prefix"
  ELSE IF entry.size > maxEntrySize THEN "size"
  ELSE "accept"

\* entry.name = entry.name.slice(8)
StripLength == 8
strippedName(entry) == Slice(entry.name, StripLength)

ExtractEntry ==
  /\ pc = "extract"
  /\ nEntries < MaxArchiveEntries
  /\ \E entry \in ArchiveEntries :
       /\ filter(entry) = "accept"
       /\ tarEntry' = entry
       /\ dirs' = [dirs EXCEPT ![CurKey] =
                     Dir(@.files \cup {File(strippedName(entry), entry.size)})]
  /\ nEntries' = nEntries + 1
  /\ calls' = calls \cup {<<"extract", CurKey>>}
  /\ UNCHANGED <<pc, skipIntegrityCheck, maxEntrySize, inputs, manifest,
                 globalConfig, allPlugins, nInc, nRoot, plugin, replaced, idx, archives,
                 output, exitStatus, error>>

ExtractReject ==
  /\ pc = "extract"
  /\ nEntries < MaxArchiveEntries
  /\ \E entry \in ArchiveEntries :
       /\ filter(entry) # "accept"
       /\ tarEntry' = entry
       /\ Throw("InstallException", "extract", CurKey, <<filter(entry)>>)
  /\ nEntries' = nEntries + 1
  /\ calls' = calls \cup {<<"extract", CurKey>>}
  /\ UNCHANGED <<skipIntegrityCheck, maxEntrySize, inputs, manifest, globalConfig,
                 allPlugins, nInc, nRoot, plugin, replaced, idx, archives, dirs, output,
                 exitStatus>>

\* a faulty variant: the archive is left in place after the extraction
Unlink_keep ==
  /\ pc = "extract"
  /\ calls' = calls \cup {<<"extract", CurKey>>}
  /\ nEntries' = 0
  /\ tarEntry' = NoEntry
  /\ pc' = "config"
  /\ UNCHANGED <<skipIntegrityCheck, maxEntrySize, inputs, manifest, globalConfig,
                 allPlugins, nInc, nRoot, plugin, replaced, idx, archives, dirs, output,
                 exitStatus, error>>

\* the archive is exhausted; lines 326-327: unlinkSync
Unlink ==
  /\ pc = "extract"
  /\ archives' = [archives EXCEPT ![CurKey] = "none"]
  /\ calls' = calls \cup {<<"extract", CurKey>>, <<"unlink", CurKey>>}
  /\ nEntries' = 0
  /\ tarEntry' = NoEntry
  /\ pc' = "config"
  /\ UNCHANGED <<skipIntegrityCheck, maxEntrySize, inputs, manifest, globalConfig,
                 allPlugins, nInc, nRoot, plugin, replaced, idx, dirs, output, exitStatus,
                 error>>

\* lines 329-337
MergesConfig(pl) ==
  Has(pl.kv, "pluginConfig") /\ IsObject(Get(pl.kv, "pluginConfig"))

NoConfig ==
  /\ pc = "config"
  /\ ~MergesConfig(CurPlugin)
  /\ pc' = "plugin"
  /\ idx' = idx + 1
  /\ UNCHANGED <<skipIntegrityCheck, maxEntrySize, inputs, manifest, globalConfig, allPlugins, nInc,
                 nRoot, plugin, replaced, archives, dirs, nEntries, tarEntry, output, exitStatus,
                 error, calls>>

MergeConfig ==
  /\ pc = "config"
  /\ MergesConfig(CurPlugin)
  /\ LET r == merge(Get(CurPlugin.kv, "pluginConfig"), globalConfig, <<>>) IN
       /\ r.ok
       /\ globalConfig' = r.d
  /\ calls' = calls \cup {<<"merge", CurKey>>}
  /\ pc' = "plugin"
  /\ idx' = idx + 1
  /\ UNCHANGED <<skipIntegrityCheck, maxEntrySize, inputs, manifest, allPlugins, nInc, nRoot, plugin, replaced,
                 archives, dirs, nEntries, tarEntry, output, exitStatus, error>>

MergeConflict ==
  /\ pc = "config"
  /\ MergesConfig(CurPlugin)
  /\ LET r == merge(Get(CurPlugin.kv, "pluginConfig"), globalConfig, <<>>) IN
       /\ ~r.ok
       /\ globalConfig' = r.d
       /\ Throw(r.err, "config", CurKey, r.named)
  /\ calls' = calls \cup {<<"merge", CurKey>>}
  /\ UNCHANGED <<skipIntegrityCheck, maxEntrySize, inputs, manifest, allPlugins, nInc, nRoot, plugin, replaced,
                 idx, archives, dirs, nEntries, tarEntry, output, exitStatus>>

\* line 340: the loop is over
WriteOutput ==
  /\ pc = "plugin"
  /\ idx > Len(allPlugins)
  /\ Return(dump(globalConfig))
  /\ UNCHANGED <<skipIntegrityCheck, maxEntrySize, inputs, manifest, globalConfig, allPlugins, nInc,
                 nRoot, plugin, replaced, idx, archives, dirs, nEntries, tarEntry, error, calls>>

\* a faulty variant: the handler reports the error and does not call process.exit(1)
Catch_noexit ==
  /\ pc = "thrown"
  /\ pc' = "done"
  /\ exitStatus' = 0
  /\ UNCHANGED <<skipIntegrityCheck, maxEntrySize, inputs, manifest, globalConfig,
                 allPlugins, nInc, nRoot, plugin, replaced, idx, archives, dirs, nEntries,
                 tarEntry, output, error, calls>>

\* lines 343-350: main().catch
Catch ==
  /\ pc = "thrown"
  /\ pc' = "done"
  /\ exitStatus' = 1
  /\ UNCHANGED <<skipIntegrityCheck, maxEntrySize, inputs, manifest, globalConfig, allPlugins, nInc,
                 nRoot, plugin, replaced, idx, archives, dirs, nEntries, tarEntry, output, error, calls>>

Next ==
  \/ NoManifest \/ EmptyManifest \/ BadManifest \/ LoadManifest
  \/ IncludeFail \/ IncludeFile \/ EndIncludes \/ BadPlugins
  \/ RootBadPackage \/ RootInsert \/ RootOverride \/ EndPlugins
  \/ SkipDisabled \/ PackageNotString \/ IntegrityMissing \/ StartInstall
  \/ FetchFail \/ FetchOk
  \/ VerifySkipped \/ VerifyOk \/ VerifyFail
  \/ PrepareFail \/ Prepare
  \/ ExtractEntry \/ ExtractReject \/ Unlink
  \/ NoConfig \/ MergeConfig \/ MergeConflict
  \/ WriteOutput \/ Catch

Spec == Init /\ [][Next]_vars

(***************************************************************************)
(* The configuration merge on its own: lines 329-335 applied to the        *)
(* pluginConfig of one plugin after another, for plugins that reach the    *)
(* merge.  plugin is the plugin whose configuration is merged, idx the     *)
(* number of plugins merged so far.                                        *)
(***************************************************************************)
MaxMerges == 3   \* plugins whose pluginConfig is merged

Obj1(k, x) == Obj(<< <<k, x>> >>)
MergeFragments ==
  { Obj1("a", Num("1")),
    Obj1("a", Num("2")),
    Obj1("a", NullV),
    Obj1("a", EmptyObj),
    Obj1("a", Obj1("b", Num("1"))),
    Obj1("a", Obj1("b", Num("2"))),
    Obj1("a", Obj1("b", Obj1("c", Num("1")))),
    Obj1("a", Obj1("b", Obj1("c", Num("2")))),
    Obj(<< <<"z", Num("1")>>, <<"a", Num("2")>> >>),
    Obj1("a", Arr(<< <<"0", Num("1")>> >>)),
    Obj1("a", Arr(<< <<"0", Num("2")>>, <<"1", Num("1")>> >>)),
    Obj1("a", Arr(<< <<"0", Num("1")>>, <<"1", Num("2")>> >>)),
    Obj1("dynamicPlugins", Obj1("rootDirectory", Str("x"))),
    Obj1("dynamicPlugins", Obj1("rootDirectory", EmptyObj)),
    Obj1("dynamicPlugins", NullV),
    Obj1("dynamicPlugins", Str("x")),
    Obj1("dynamicPlugins", Obj1("rootDirectory", NullV)),
    Obj1("dynamicPlugins", Obj1("rootDirectory", Obj1("a", Num("1")))),
    Obj1("dynamicPlugins", Obj1("rootDirectory", Str("dynamic-plugins-root"))),
    Obj1("dynamicPlugins", Obj1("a", Num("1"))) }

\* the plugins are registry packages whose pluginConfig is a merge fragment
MergeInputs ==
  [disabled    |-> {Undefined},
   integrity   |-> {Str("sha256-D1")},
   config      |-> MergeFragments,
   packageless |-> FALSE,
   packages    |-> {"p"}]

InitMerge ==
  /\ pc = "merge"
  /\ skipIntegrityCheck = FALSE
  /\ maxEntrySize = DefaultMaxEntrySize
  /\ inputs = MergeInputs
  /\ manifest = "object"
  /\ globalConfig = InitialGlobalConfig
  /\ allPlugins = <<>>
  /\ nInc = 0
  /\ nRoot = 0
  /\ plugin = Undefined
  /\ replaced = Undefined
  /\ idx = 0
  /\ archives = [k \in PackageKeys |-> "none"]
  /\ dirs = [k \in PackageKeys |-> NoDir]
  /\ nEntries = 0
  /\ tarEntry = NoEntry
  /\ output = NoFile
  /\ exitStatus = -1
  /\ error = NoError
  /\ calls = {}

MergeFragmentOk ==
  /\ pc = "merge"
  /\ idx < MaxMerges
  /\ \E config \in inputs.config :
       LET r == merge(config, globalConfig, <<>>) IN
       /\ r.ok
       /\ plugin' = Entry(Str("p"), Undefined, Str("sha256-D1"), config)
       /\ UNCHANGED replaced
       /\ globalConfig' = r.d
  /\ idx' = idx + 1
  /\ UNCHANGED <<pc, skipIntegrityCheck, maxEntrySize, inputs, manifest, allPlugins,
                 nInc, nRoot, archives, dirs, nEntries, tarEntry, output, exitStatus,
                 error, calls>>

MergeFragmentThrow ==
  /\ pc = "merge"
  /\ idx < MaxMerges
  /\ \E config \in inputs.config :
       LET r == merge(config, globalConfig, <<>>) IN
       /\ ~r.ok
       /\ plugin' = Entry(Str("p"), Undefined, Str("sha256-D1"), config)
       /\ UNCHANGED replaced
       /\ globalConfig' = r.d
       /\ Throw(r.err, "config", "p", r.named)
  /\ idx' = idx + 1
  /\ UNCHANGED <<skipIntegrityCheck, maxEntrySize, inputs, manifest, allPlugins,
                 nInc, nRoot, archives, dirs, nEntries, tarEntry, output, exitStatus,
                 calls>>

NextMerge == MergeFragmentOk \/ MergeFragmentThrow \/ Catch

SpecMerge == InitMerge /\ [][NextMerge]_vars

(***************************************************************************)
(* Properties.                                                             *)
(***************************************************************************)
FieldNames == {"package", "disabled", "integrity", "pluginConfig"}
Resolved == pc \notin {"start", "includes", "plugins"}
KeyAt(i) == allPlugins[i][1]
PluginAt(i) == allPlugins[i][2]

\* C1: when the root plugins list names a package that allPlugins already
\* defines, the step that reads the root entry leaves the definition with the
\* root entry's value in every field the entry has other than package, with
\* its former value (or absence) in every field the entry lacks, and with its
\* package unchanged; no other definition changes.
C1_FieldOverrideStep ==
  (/\ pc = "plugins" /\ pc' = "plugins" /\ nRoot' = nRoot + 1
   /\ Has(allPlugins, Get(plugin'.kv, "package").v))
  => LET k   == Get(plugin'.kv, "package").v
         old == Get(allPlugins, k)
         new == Get(allPlugins', k)
     IN  /\ \A f \in FieldNames \ {"package"} :
              IF Has(plugin'.kv, f)
                THEN Has(new.kv, f) /\ Get(new.kv, f) = Get(plugin'.kv, f)
                ELSE /\ Has(new.kv, f) = Has(old.kv, f)
                     /\ Get(new.kv, f) = Get(old.kv, f)
         /\ Get(new.kv, "package") = Get(old.kv, "package")
         /\ Keys(new.kv) \subseteq FieldNames
         /\ Keys(allPlugins') = Keys(allPlugins)
         /\ \A j \in Keys(allPlugins) \ {k} :
              Get(allPlugins', j) = Get(allPlugins, j)
C1_FieldOverride == [][C1_FieldOverrideStep]_vars

\* C1 witness: the first root entry has overridden an included definition:
\* the definition has the entry's integrity and keeps a disabled field the
\* entry does not have.
C1_Witness ==
  /\ pc = "plugins" /\ nRoot = 1
  /\ Has(plugin.kv, "integrity") /\ ~Has(plugin.kv, "disabled")
  /\ LET def == Get(allPlugins, Get(plugin.kv, "package").v)
     IN  /\ Get(def.kv, "integrity") = Get(plugin.kv, "integrity")
         /\ Get(def.kv, "disabled") = Bool("false")

Stages == {"fetch", "verify", "remove", "extract", "unlink", "merge"}
Enabled(pl) == Get(pl.kv, "disabled") # Bool("true")
\* the package is a string that does not begin with './'
NonLocal(pl) ==
  /\ Get(pl.kv, "package").t = "str"
  /\ Chars(Get(pl.kv, "package").v)[1] # "./"

\* C2: an enabled plugin with a non-local package and no integrity field,
\* when integrity checking is not disabled, is never fetched, verified,
\* removed, extracted, unlinked or merged; the install loop does not go past
\* it, and when the loop has left the check of that plugin the run has been
\* aborted by an InstallException raised for that plugin.
C2_MandatoryIntegrity ==
  Resolved =>
    \A i \in 1..Len(allPlugins) :
      (/\ Enabled(PluginAt(i)) /\ NonLocal(PluginAt(i))
       /\ ~skipIntegrityCheck
       /\ ~Has(PluginAt(i).kv, "integrity"))
      => /\ \A op \in Stages : <<op, KeyAt(i)>> \notin calls
         /\ idx <= i
         /\ idx = i => pc \in {"plugin", "thrown", "done"}
         /\ (idx = i /\ pc # "plugin")
              => /\ error = Thrown("InstallException", "resolved", KeyAt(i), <<>>)
                 /\ archives[KeyAt(i)] = "none"

\* C2 witness: the second plugin of the resolved order has been rejected for
\* its missing integrity, after the first one was installed.
C2_Witness ==
  /\ pc = "thrown" /\ idx = 2
  /\ error = Thrown("InstallException", "resolved", KeyAt(2), <<>>)
  /\ NonLocal(PluginAt(2)) /\ ~Has(PluginAt(2).kv, "integrity")
  /\ <<"extract", KeyAt(1)>> \in calls

\* the integrity string has exactly two parts around '-', the first names a
\* recognized algorithm and the second is the digest of the archive under it
IntegrityAccepts(pl, bytes) ==
  LET integrity == Get(pl.kv, "integrity") IN
  /\ integrity.t = "str"
  /\ LET parts == Split(integrity.v, "-") IN
       /\ Len(parts) = 2
       /\ parts[1] \in {<<"sha512">>, <<"sha384">>, <<"sha256">>}
       /\ parts[2] = Digest(parts[1], bytes)

\* C3: with integrity checking enabled, a non-local plugin is past
\* verification (its directory about to be removed, or being extracted) only
\* when its integrity string accepts the archive that was fetched; a plugin
\* whose directory was removed or extracted has a well-formed integrity
\* string; and a run aborted in verification has removed and extracted
\* nothing for that plugin.
C3_IntegrityGate ==
  /\ (pc \in {"prepare", "extract"} /\ NonLocal(CurPlugin) /\ ~skipIntegrityCheck)
       => IntegrityAccepts(CurPlugin, archives[CurKey])
  /\ Resolved =>
       \A i \in 1..Len(allPlugins) :
         (/\ NonLocal(PluginAt(i)) /\ ~skipIntegrityCheck
          /\ \E op \in {"remove", "extract", "unlink", "merge"} :
               <<op, KeyAt(i)>> \in calls)
         => \E bytes \in ArchiveBytes : IntegrityAccepts(PluginAt(i), bytes)
  /\ (pc \in {"thrown", "done"} /\ error.stage = "verify")
       => /\ \A op \in {"remove", "extract", "unlink", "merge"} :
               <<op, error.key>> \notin calls
          /\ dirs[error.key] \in {NoDir, Dir({StaleFile})}

\* C3 witness: a non-local plugin is being extracted with integrity checking
\* enabled, from an archive whose sha512 digest its integrity string gives.
C3_Witness ==
  /\ pc = "extract" /\ NonLocal(CurPlugin) /\ ~skipIntegrityCheck
  /\ Get(CurPlugin.kv, "integrity") = Str("sha512-E1")

\* the entry is outside 'package/' or declares more than maxEntrySize
Rejected(e) == Chars(e.name)[1] # "package/" \/ e.size > maxEntrySize
\* the file an accepted entry becomes: its name without 'package/'
Written(e) == File(Tail(Chars(e.name)), e.size)

\* C4 (state): once a plugin directory has been removed and recreated, every
\* file in it is an entry under 'package/' of at most maxEntrySize, stored at
\* its name without the prefix.
C4_OnlySafeFiles ==
  \A k \in PackageKeys :
    <<"remove", k>> \in calls =>
      \A file \in dirs[k].files :
        \E e \in ArchiveEntries : ~Rejected(e) /\ file = Written(e)

\* C4 (step): an entry handed to filter that is outside 'package/' or too
\* large aborts the run and writes nothing; any other entry is written at its
\* stripped name in the directory of the current plugin and nowhere else.
C4_ExtractStep ==
  (pc = "extract" /\ nEntries' = nEntries + 1)
  => IF Rejected(tarEntry')
       THEN pc' = "thrown" /\ dirs' = dirs
       ELSE /\ pc' = "extract"
            /\ dirs' = [dirs EXCEPT ![CurKey] = Dir(@.files \cup {Written(tarEntry')})]

\* C4: safe extraction.
C4_SafeExtraction == []C4_OnlySafeFiles /\ [][C4_ExtractStep]_vars

\* C4 witness: the first entry of an archive has been written and the second,
\* an oversized entry under 'package/', has aborted the run.
C4_Witness ==
  /\ pc = "thrown" /\ error.stage = "extract" /\ nEntries = 2
  /\ Chars(tarEntry.name)[1] = "package/" /\ tarEntry.size > maxEntrySize
  /\ dirs[CurKey].files = {File(<<"f">>, DefaultMaxEntrySize)}

\* C7 (state): no stage is ever performed for a plugin whose disabled field
\* is true.
C7_NoStageForDisabled ==
  Resolved =>
    \A i \in 1..Len(allPlugins) :
      Get(PluginAt(i).kv, "disabled") = Bool("true")
        => \A op \in Stages : <<op, KeyAt(i)>> \notin calls

\* C7 (step): when the install loop is at a plugin whose disabled field is
\* true, the step it takes moves to the next plugin and leaves the archives,
\* the directories, GlobalConfig, the output and the operations performed as
\* they were.
C7_SkipStep ==
  (pc = "plugin" /\ InLoop /\ Get(CurPlugin.kv, "disabled") = Bool("true"))
  => /\ pc' = "plugin" /\ idx' = idx + 1
     /\ UNCHANGED <<archives, dirs, globalConfig, output, calls, error, exitStatus>>

\* C7: disabled skip.
C7_DisabledSkip == []C7_NoStageForDisabled /\ [][C7_SkipStep]_vars

\* C7 witness: the run ended successfully after skipping a disabled plugin
\* that has a pluginConfig and installing the plugin after it.
C7_Witness ==
  /\ pc = "done" /\ exitStatus = 0 /\ Len(allPlugins) = 2
  /\ Get(PluginAt(1).kv, "disabled") = Bool("true")
  /\ Get(PluginAt(1).kv, "pluginConfig") = FragN1
  /\ <<"merge", KeyAt(2)>> \in calls

\* C8: when dynamic-plugins.yaml is absent, blank or the empty string, the
\* run goes from its start to its end in one step, having written the empty
\* output and exited with status 0; nothing is included, resolved, fetched,
\* verified, removed, extracted, unlinked or merged, and nothing is thrown.
C8_EarlyExit ==
  manifest \in {"absent", "blank", "emptystring"}
  => /\ pc \in {"start", "done"}
     /\ calls = {} /\ allPlugins = <<>> /\ nInc = 0 /\ nRoot = 0
     /\ error = NoError
     /\ \A k \in PackageKeys : archives[k] = "none"
     /\ \A k \in PackageKeys : dirs[k] \in {NoDir, Dir({StaleFile})}
     /\ IF pc = "done" THEN output = EmptyDoc /\ exitStatus = 0
                       ELSE output = NoFile /\ exitStatus = -1

\* C8 witness: the run has ended on a blank manifest.
C8_Witness == pc = "done" /\ manifest = "blank" /\ output = EmptyDoc /\ exitStatus = 0

\* C9 (state): once an error has been thrown the run is aborted: it is in the
\* handler or has exited with status 1, and no stage has been performed for
\* any plugin after the current one in the resolved order.
C9_Aborted ==
  error.type # "none"
  => /\ pc \in {"thrown", "done"}
     /\ IF pc = "done" THEN exitStatus = 1 ELSE exitStatus = -1
     /\ \A i \in (idx + 1)..Len(allPlugins) :
          \A op \in Stages : <<op, KeyAt(i)>> \notin calls

\* C9 (step): after an error the only step is the handler's exit with status
\* 1; it performs no stage and changes neither the install loop's position,
\* the resolved plugins, the files, GlobalConfig nor the output.
C9_AbortStep ==
  error.type # "none"
  => /\ pc = "thrown" /\ pc' = "done" /\ exitStatus' = 1
     /\ UNCHANGED <<idx, allPlugins, calls, archives, dirs, globalConfig, output,
                    error>>

\* C9: stop at the first error.
C9_StopAtFirstError == []C9_Aborted /\ [][C9_AbortStep]_vars

\* C9 witness: the run has exited with status 1 after the verification of the
\* first of two enabled plugins failed.
C9_Witness ==
  /\ pc = "done" /\ exitStatus = 1 /\ error.stage = "verify"
  /\ idx = 1 /\ Len(allPlugins) = 2
  /\ Enabled(PluginAt(2))

(***************************************************************************)
(* Properties of the merge.                                                *)
(***************************************************************************)
\* the value at a key path of a tree, Undefined when the path is not there
RECURSIVE At(_, _)
At(tree, path) ==
  IF path = <<>> THEN tree
  ELSE IF IsObject(tree) /\ Has(tree.kv, Head(path))
    THEN At(Get(tree.kv, Head(path)), Tail(path))
  ELSE Undefined

PathKeys == {"a", "b", "c", "z", "0", "1", "dynamicPlugins", "rootDirectory"}
MaxDepth == 3
KeyPaths == UNION {[1..n -> PathKeys] : n \in 1..MaxDepth}

\* the fragment whose merge the step performs
Fragment == Get(plugin.kv, "pluginConfig")
MergeStep == pc = "merge" /\ idx' = idx + 1

\* the key paths at which the fragment holds a non-object value and the
\* destination holds a different value
ConflictPaths(fragment, destination) ==
  {p \in KeyPaths :
     /\ At(fragment, p) # Undefined /\ ~IsObject(At(fragment, p))
     /\ At(destination, p) # Undefined
     /\ At(destination, p) # At(fragment, p)}

\* C5: a merge whose fragment holds, at some key path, a non-object value
\* where the destination holds a different value fails, and the error names
\* such a key path in full: all its keys from the root.
C5_ConflictNamesFullPath ==
  [][(MergeStep /\ ConflictPaths(Fragment', globalConfig) # {})
       => /\ pc' = "thrown"
          /\ error'.type = "InstallException"
          /\ error'.named \in ConflictPaths(Fragment', globalConfig)]_vars

\* C6: a key path of GlobalConfig that holds a non-object value holds the same
\* value after every merge that succeeds, and a fragment that gives the path
\* another value (a scalar or an object) fails and leaves the value.
C6_WriteOnce ==
  [][MergeStep =>
       \A p \in KeyPaths :
         LET old == At(globalConfig, p) IN
         (old # Undefined /\ ~IsObject(old))
         => /\ pc' = "merge" => At(globalConfig', p) = old
            /\ At(Fragment', p) \notin {Undefined, old}
                 => pc' = "thrown" /\ At(globalConfig', p) = old]_vars

(***************************************************************************)
(* Properties of the whole run.                                            *)
(***************************************************************************)
\* the pluginConfig trees of the enabled plugins among the first i of the
\* resolved order, merged in that order into the initial GlobalConfig
RECURSIVE MergedConfig(_)
MergedConfig(i) ==
  IF i = 0 THEN InitialGlobalConfig
  ELSE LET config == Get(PluginAt(i).kv, "pluginConfig") IN
       IF Enabled(PluginAt(i)) /\ IsObject(config)
         THEN merge(config, MergedConfig(i - 1), <<>>).d
         ELSE MergedConfig(i - 1)

\* no stage failed: nothing was thrown, or the throw came from the fetch
\* stage although npm pack had exited with 0
NoStageFailed ==
  \/ error.type = "none"
  \/ error.stage = "fetch" /\ PackSucceeded(error.named[1])

\* C10: a run on a manifest with plugins in which no stage fails ends with
\* exit status 0 and an output that is the initial GlobalConfig merged with
\* the pluginConfig of the enabled plugins, in resolved order.
C10_SuccessfulRunOutput ==
  (pc = "done" /\ manifest = "object" /\ NoStageFailed)
  => /\ exitStatus = 0
     /\ output = dump(MergedConfig(Len(allPlugins)))


(***************************************************************************)
(* Properties of the end of the run and of the resolved order.             *)
(***************************************************************************)
\* the run went past the early exits of lines 140-165 and the checks of the
\* root manifest: the manifest exists, is not empty and is an object
PastEarlyExit == manifest = "object"

\* C11: a run that went past the early exits has written GlobalConfig to the
\* output file by the time it ends, whether it ends in success or aborted.
C11_OutputOnAbort ==
  (pc = "done" /\ PastEarlyExit) => output = dump(globalConfig)

\* the keys of an object in property order
KeyOrder(kv) == [i \in 1..Len(kv) |-> kv[i][1]]

\* s is an initial part of t
IsPrefix(s, t) == Len(s) <= Len(t) /\ \A i \in 1..Len(s) : s[i] = t[i]

\* a step of the resolution: an included file or a root entry is read
ResolutionStep == pc \in {"includes", "plugins"} /\ allPlugins' # allPlugins

\* C12: the resolved order is the order of first insertion: a step of the
\* resolution leaves the packages seen so far in their order and places the
\* packages it inserts after them, whatever the package strings are; the
\* install loop takes the plugins in that order.
C12_FirstSeenOrder ==
  [][/\ ResolutionStep => IsPrefix(KeyOrder(allPlugins), KeyOrder(allPlugins'))
     /\ (pc = "plugin" /\ idx' # idx) => idx' = idx + 1 /\ allPlugins' = allPlugins]_vars

\* C13: while the included manifests are read, the definition of the package
\* of the entry last read is exactly that entry, whatever an earlier entry of
\* the same or of another included manifest gave for the package; and the
\* resolved map holds one definition for each package, under the package's
\* own key.
C13_IncludeLastWins ==
  /\ (pc = "includes" /\ plugin # Undefined)
       => Get(allPlugins, PackageKey(plugin)) = plugin
  /\ \A i, j \in 1..Len(allPlugins) :
       allPlugins[i][1] = allPlugins[j][1] => i = j
  /\ \A i \in 1..Len(allPlugins) :
       PackageKey(allPlugins[i][2]) = allPlugins[i][1]

\* C13 witness: the second included manifest has been read; its last entry
\* replaced a definition of the same package that had a disabled field and
\* another integrity, and the definition is the entry, without disabled.
C13_Witness ==
  /\ pc = "includes" /\ nInc = MaxIncludes
  /\ plugin # Undefined /\ replaced # Undefined
  /\ Has(replaced.kv, "disabled") /\ ~Has(plugin.kv, "disabled")
  /\ Has(replaced.kv, "integrity") /\ ~Has(plugin.kv, "integrity")
  /\ Get(allPlugins, PackageKey(plugin)) = plugin
  /\ Len(allPlugins) = 2

\* C14: every entry of the resolved map has a string package field: an entry
\* without one, from the root list or from an included list, is never
\* inserted and makes the resolution fail.
C14_PackageValidated ==
  \A i \in 1..Len(allPlugins) : Get(allPlugins[i][2].kv, "package").t = "str"


(***************************************************************************)
(* Properties of the plugin directory and of the archive.                  *)
(***************************************************************************)
\* C15: the step that prepares the directory of a plugin leads to the
\* extraction with the directory existing and empty, both when a directory
\* was there before (it is removed with all it held and made again) and
\* when none was (first install).
C15_CleanTargetDirectory ==
  [][pc = "prepare" => (pc' = "extract" /\ dirs'[CurKey] = Dir({}))]_vars


\* the run was aborted by a throw of the given stage
AbortedIn(stage) == pc \in {"thrown", "done"} /\ error.stage = stage

\* C18 (state): the archive of the plugin being installed is on disk from
\* the fetch to the end of the extraction and is gone when the config merge
\* starts; after an abort in the config merge the archive of the plugin is
\* deleted and its directory holds what was extracted; after an abort in
\* the fetch (npm pack having written the archive), the verification or the
\* extraction the archive is still there.
C18_ArchiveState ==
  /\ pc \in {"verify", "prepare", "extract"} => archives[CurKey] # "none"
  /\ pc = "config" => archives[CurKey] = "none"
  /\ AbortedIn("config")
       => /\ archives[error.key] = "none"
          /\ dirs[error.key].exists
          /\ StaleFile \notin dirs[error.key].files
          /\ <<"extract", error.key>> \in calls
  /\ (AbortedIn("verify") \/ AbortedIn("extract")) => archives[error.key] # "none"
  /\ (AbortedIn("fetch") /\ PackSucceeded(error.named[1]))
       => archives[error.key] # "none"

\* C18 (step): an archive is deleted only by the step that ends the
\* extraction of its plugin and starts the config merge, and the config
\* merge and the abort leave the plugin directories as they are.
C18_DeleteStep ==
  /\ \A k \in PackageKeys :
       (archives[k] # "none" /\ archives'[k] = "none")
         => (pc = "extract" /\ pc' = "config" /\ k = CurKey)
  /\ pc \in {"config", "thrown"} => dirs' = dirs

C18_ArchiveDeletionOrdering == []C18_ArchiveState /\ [][C18_DeleteStep]_vars

\* C18 witness: the config merge of the second plugin has aborted the run;
\* its archive is deleted and its directory holds an extracted file.
C18_Witness ==
  /\ pc = "done" /\ exitStatus = 1 /\ error.stage = "config" /\ idx = 2
  /\ archives[error.key] = "none"
  /\ dirs[error.key].files = {File(<<"f">>, DefaultMaxEntrySize)}


(***************************************************************************)
(* Further properties of the merge.                                        *)
(***************************************************************************)
\* C16: a fragment whose one key holds an array is merged as a scalar is:
\* the array is stored as it is when the destination lacks the key, the
\* merge succeeds and keeps the value when the destination holds the same
\* value, and the merge fails and keeps the value when it holds another;
\* the elements of the array are never merged one by one.
C16_ArraysAreScalars ==
  [][MergeStep =>
       \A k \in Keys(Fragment'.kv) :
         LET x   == Get(Fragment'.kv, k)
             old == Get(globalConfig.kv, k)
         IN  (x.t = "a" /\ Len(Fragment'.kv) = 1)
             => IF ~Has(globalConfig.kv, k) \/ old = x
                  THEN pc' = "merge" /\ Get(globalConfig'.kv, k) = x
                  ELSE pc' = "thrown" /\ Get(globalConfig'.kv, k) = old]_vars

\* two trees hold the same keys with the same values, whatever the order of
\* the keys
RECURSIVE SameTree(_, _)
SameTree(x, y) ==
  IF IsObject(x) /\ IsObject(y)
    THEN /\ x.t = y.t
         /\ Keys(x.kv) = Keys(y.kv)
         /\ \A k \in Keys(x.kv) : SameTree(Get(x.kv, k), Get(y.kv, k))
    ELSE x = y

\* merge first, then second, into destination: the result of the first
\* merge if it throws, otherwise the result of the second
mergeBoth(first, second, destination) ==
  LET r == merge(first, destination, <<>>)
  IN  IF r.ok THEN merge(second, r.d, <<>>) ELSE r

\* C17: for every GlobalConfig reached and every two fragments, merging them
\* in one order succeeds exactly when merging them in the other order does,
\* and when both succeed the trees are the same.
C17_MergeOrderIndependence ==
  pc = "merge" =>
    \A A, B \in MergeFragments :
      LET ab == mergeBoth(A, B, globalConfig)
          ba == mergeBoth(B, A, globalConfig)
      IN  /\ ab.ok = ba.ok
          /\ ab.ok => SameTree(ab.d, ba.d)

\* C19: a merge that fails with a conflict leaves GlobalConfig as it was
\* before the merge began, and GlobalConfig is not modified after the abort.
C19_FailedMergeWritesNothing ==
  [][/\ (MergeStep /\ pc' = "thrown" /\ error'.type = "InstallException")
          => globalConfig' = globalConfig
     /\ pc \in {"thrown", "done"} => globalConfig' = globalConfig]_vars


\* the key path of the install root directory and the value main gives it
RootDirectoryPath == <<"dynamicPlugins", "rootDirectory">>
RootDirectory == At(InitialGlobalConfig, RootDirectoryPath)

\* the fragment gives dynamicPlugins a value that is no object (a scalar or
\* null), or gives dynamicPlugins.rootDirectory another scalar, null, or an
\* object that is not empty
SetsRootDirectory(fragment) ==
  LET dp == At(fragment, <<"dynamicPlugins">>)
      rd == At(fragment, RootDirectoryPath)
  IN  \/ dp # Undefined /\ ~IsObject(dp)
      \/ rd # Undefined /\ ~IsObject(rd) /\ rd # RootDirectory
      \/ IsObject(rd) /\ rd.kv # <<>>

\* C20 (state): GlobalConfig holds the initial value at
\* dynamicPlugins.rootDirectory in every state after its creation.
C20_RootDirectoryKept ==
  globalConfig # Undefined => At(globalConfig, RootDirectoryPath) = RootDirectory

\* C20 (step): the merge of a fragment that sets dynamicPlugins or
\* dynamicPlugins.rootDirectory to something different aborts the run.
C20_AbortStep ==
  (MergeStep /\ SetsRootDirectory(Fragment')) => pc' = "thrown"

====
